---- MODULE Spec2Model ----
(***************************************************************************)
(* Model of horovod/common/ops/gloo_operations.cc: the three Gloo          *)
(* collective executors (GlooAllreduce, GlooAllgather, GlooBroadcast) run  *)
(* by Size ranks on one batch of tensor entries.                           *)
(*                                                                         *)
(* Every rank runs Execute on its own copy of the batch.  Execute blocks   *)
(* in the backend collective (gloo ...::run()), so each Execute is split   *)
(* at that call: <Op>Execute(r) is the code up to and including the call,  *)
(* <Op>Run is the collective itself (it completes once every rank has      *)
(* entered it) and <Op>Return(r) is the code after the call.               *)
(*                                                                         *)
(* Buffers are sequences of elements.  The code's byte offsets are element *)
(* offsets times element_size.  The allgather tables are kept in elements, *)
(* as entry_component_sizes and entry_component_offsets are in the code.   *)
(*                                                                         *)
(* Code of the base classes (AllocateOutput, SetDisplacements,             *)
(* SetEntryComponentOffsets, MemcpyInFusionBuffer, MemcpyOutFusionBuffer,  *)
(* NumElements) is not part of gloo_operations.cc; it is modelled from the *)
(* specification and from the arguments the calls pass.                    *)
(***************************************************************************)
EXTENDS Integers, Sequences, FiniteSets, TLC

\* ---------------------------------------------------------------- bounds
\* Number of ranks that run a collective together.
Size == 2
\* Largest number of ranks the allgather planner is run for.
PlanMaxSize == 3
\* Largest batch (entries.size()).
MaxEntries == 2
\* Largest number of elements one rank contributes to one tensor.
MaxDim == 2
\* Largest element value of the first tensor of an allreduce batch.
MaxVal == 2

\* Values an uninitialised buffer cell may hold.
Stale == {0 - 1, 0 - 2}

Ops == {"allreduce", "allgather", "broadcast"}

\* ------------------------------------------------------------ data types
DataTypes ==
  {"HOROVOD_UINT8", "HOROVOD_INT8", "HOROVOD_UINT16", "HOROVOD_INT16",
   "HOROVOD_INT32", "HOROVOD_INT64", "HOROVOD_FLOAT16", "HOROVOD_FLOAT32",
   "HOROVOD_FLOAT64", "HOROVOD_BOOL"}

\* GetAlgorithmsForType with a case added for HOROVOD_FLOAT16
GetAlgorithmsForType_Float16(dt) ==
  CASE dt \in {"HOROVOD_UINT8", "HOROVOD_INT8", "HOROVOD_BOOL"} ->
         [thrown |-> FALSE, element_size |-> 1]
    [] dt \in {"HOROVOD_UINT16", "HOROVOD_INT16", "HOROVOD_FLOAT16"} ->
         [thrown |-> FALSE, element_size |-> 2]
    [] dt \in {"HOROVOD_INT32", "HOROVOD_FLOAT32"} ->
         [thrown |-> FALSE, element_size |-> 4]
    [] dt \in {"HOROVOD_INT64", "HOROVOD_FLOAT64"} ->
         [thrown |-> FALSE, element_size |-> 8]
    [] OTHER -> [thrown |-> TRUE, element_size |-> 0]

\* The switch of GetAlgorithmsForType: the element_size handed to the
\* GlooAlgorithms constructor, or a thrown std::logic_error naming the type.
GetAlgorithmsForType(dt) ==
  CASE dt = "HOROVOD_UINT8"   -> [thrown |-> FALSE, element_size |-> 1]
    [] dt = "HOROVOD_INT8"    -> [thrown |-> FALSE, element_size |-> 1]
    [] dt = "HOROVOD_UINT16"  -> [thrown |-> FALSE, element_size |-> 2]
    [] dt = "HOROVOD_INT16"   -> [thrown |-> FALSE, element_size |-> 2]
    [] dt = "HOROVOD_INT32"   -> [thrown |-> FALSE, element_size |-> 4]
    [] dt = "HOROVOD_INT64"   -> [thrown |-> FALSE, element_size |-> 8]
    [] dt = "HOROVOD_FLOAT32" -> [thrown |-> FALSE, element_size |-> 4]
    [] dt = "HOROVOD_FLOAT64" -> [thrown |-> FALSE, element_size |-> 8]
    [] dt = "HOROVOD_BOOL"    -> [thrown |-> FALSE, element_size |-> 1]
    [] OTHER                  -> [thrown |-> TRUE,  element_size |-> 0]

\* GlooAlgorithms<T>::ElementSize
ElementSize(dt) == GetAlgorithmsForType(dt).element_size

\* ------------------------------------------------------- buffer helpers
RECURSIVE SumTo(_, _)
\* f[0] + ... + f[n-1]
SumTo(f, n) == IF n <= 0 THEN 0 ELSE SumTo(f, n - 1) + f[n - 1]

\* n cells holding x
Fill(n, x) == [k \in 1 .. n |-> x]

\* std::memcpy(buf + off, data, Len(data))
Memcpy(buf, off, data) ==
  [k \in 1 .. Len(buf) |->
     IF k > off /\ k <= off + Len(data) THEN data[k - off] ELSE buf[k]]

\* the n cells of buf that start at offset off
Slice(buf, off, n) == [k \in 1 .. n |-> buf[off + k]]

RECURSIVE Concat(_, _)
\* f[0] \o ... \o f[n-1]
Concat(f, n) == IF n <= 0 THEN << >> ELSE Concat(f, n - 1) \o f[n - 1]

\* ----------------------------------------------------------------- state
VARIABLES
  size,          \* global_state_->size, the number of ranks
  op,            \* the executor every rank runs on this batch
  nentries,      \* entries.size()
  dtype,         \* first_entry.tensor->dtype()
  ndebug,        \* the build defines NDEBUG (assert compiled out)
  root_rank,     \* e.root_rank (broadcast)
  tensor_sizes,  \* response.tensor_sizes(): [entry][rank] -> first dimension
  tensor,        \* [rank][entry] -> e.tensor->data(), the input elements
  output,        \* [rank][entry] -> e.output->data(); << >> while unallocated
  fusion,        \* [rank] -> the process-wide fusion buffer
  pc,            \* [rank] -> position of the rank's Execute
  result,        \* [rank] -> how the rank's Execute ended
  timeline,      \* [rank] -> events of the run, timeline notifications included
  tables,        \* [rank] -> the per-batch allgather tables
  call,          \* [rank] -> arguments of the rank's backend call
  uninit         \* what memory nobody has written yet holds in this run

vars == <<size, op, nentries, dtype, ndebug, root_rank, tensor_sizes, tensor, output,
          fusion, pc, result, timeline, tables, call, uninit>>

\* what the upstream layer and the build fix before Execute runs
batch == <<size, op, nentries, dtype, ndebug, root_rank, tensor_sizes, uninit>>

Ranks == 0 .. (size - 1)
Entries == 0 .. (nentries - 1)

\* Capacity of the fusion buffer in elements (validated upstream): an
\* in-place gather of a full batch from every rank fits.
FusionCapacity == size * MaxEntries * MaxDim

\* ---------------------------------------------------------- construction
NoResult == [kind |-> "none", value |-> ""]
NoCall == [op |-> "none", buffer |-> "none", count |-> 0, root |-> 0]
NoTables == [alive |-> FALSE, entry_component_sizes |-> << >>,
             entry_component_offsets |-> << >>, recvcounts |-> << >>,
             displcmnts |-> << >>]

\* Element j of entry i on rank r of a gathered or broadcast tensor: every
\* element of the batch is distinct.
Tag(r, i, j) == 100 * (r + 1) + 10 * (i + 1) + j

\* The batch as the upstream layer hands it to n ranks.
Batch(n) ==
  /\ size = n
  /\ op \in Ops
  /\ nentries \in 1 .. MaxEntries
  \* Every rank declares the same size for a tensor, except that in an
  \* allgather batch one contribution (one tensor of one rank) may differ.
  /\ \E same \in [0 .. (nentries - 1) -> 0 .. MaxDim] :
       \/ tensor_sizes = [i \in 0 .. (nentries - 1) |-> [r \in Ranks |-> same[i]]]
       \/ /\ op = "allgather"
          /\ \E i0 \in 0 .. (nentries - 1) : \E r0 \in Ranks : \E d \in 0 .. MaxDim :
               tensor_sizes = [i \in 0 .. (nentries - 1) |-> [r \in Ranks |->
                                 IF i = i0 /\ r = r0 THEN d ELSE same[i]]]
  \* every data type on unit shapes, every shape on HOROVOD_INT32
  /\ \/ dtype = "HOROVOD_INT32"
     \/ /\ dtype \in DataTypes
        /\ \A i \in 0 .. (nentries - 1) : \A r \in Ranks : tensor_sizes[i][r] = 1
  \* only GlooBroadcast::Execute contains an assert
  /\ ndebug \in (IF op = "broadcast" THEN BOOLEAN ELSE {TRUE})
  /\ root_rank \in (IF op = "broadcast" THEN Ranks ELSE {0})
  /\ uninit \in Stale
  /\ fusion = [r \in Ranks |-> Fill(FusionCapacity, uninit)]
  /\ output = [r \in Ranks |-> [i \in 0 .. (nentries - 1) |->
                 IF op = "allgather" THEN << >>
                 ELSE Fill(tensor_sizes[i][r], uninit)]]
  /\ IF op = "allreduce"
       THEN \E v \in 1 .. MaxVal : \E skew \in {0, 1} :
              tensor = [r \in Ranks |-> [i \in 0 .. (nentries - 1) |->
                          Fill(tensor_sizes[i][r], v + i + skew * r)]]
       ELSE tensor = [r \in Ranks |-> [i \in 0 .. (nentries - 1) |->
                        [j \in 1 .. tensor_sizes[i][r] |-> Tag(r, i, j)]]]
  /\ pc = [r \in Ranks |-> "start"]
  /\ result = [r \in Ranks |-> NoResult]
  /\ timeline = [r \in Ranks |-> << >>]
  /\ tables = [r \in Ranks |-> NoTables]
  /\ call = [r \in Ranks |-> NoCall]

Init == Batch(Size)

\* ------------------------------------------------------- shared pieces
\* NumElements(entries): the elements of the rank's own input tensors
NumElements(r) == SumTo([i \in Entries |-> Len(tensor[r][i])], nentries)

ActivityStartAll(name) == <<"ActivityStartAll", name>>
ActivityEndAll == <<"ActivityEndAll", "">>
Did(what) == <<what, "">>

\* the buffer a backend call of rank r works on
BufferOf(r, which) ==
  CASE which = "fusion" -> fusion[r]
    [] which = "output" -> output[r][0]
    [] OTHER            -> tensor[r][0]

AllIn(where) == \A r \in Ranks : pc[r] = where

\* the fusion buffer used whatever the number of entries
EntriesFused_Always == TRUE

\* if (entries.size() > 1): the batch goes through the fusion buffer
EntriesFused == nentries > 1

\* how a run ends
Returned(st) == [kind |-> "status", value |-> st]
Threw(dt) == [kind |-> "logic_error", value |-> dt]
Aborted == [kind |-> "abort", value |-> "entries.size() == 1"]

\* --------------------------------------------------------- GlooAllreduce
\* AllreduceOp::MemcpyInFusionBuffer: the entries back to back from offset 0
AllreduceMemcpyInFusionBuffer(r) ==
  Memcpy(fusion[r], 0, Concat([i \in Entries |-> tensor[r][i]], nentries))

\* AllreduceOp::MemcpyOutFusionBuffer: each entry's slice, same offsets
AllreduceMemcpyOutFusionBuffer(r) ==
  [i \in Entries |->
     Slice(fusion[r],
           SumTo([j \in Entries |-> Len(tensor[r][j])], i),
           Len(tensor[r][i]))]

\* the element count of the first entry alone
AllreduceNumElements_FirstOnly(r) == Len(tensor[r][0])

\* int num_elements = (int) NumElements(entries);
AllreduceNumElements(r) == NumElements(r)

\* GlooAllreduce::Execute up to allreduce.run()
GlooAllreduceExecute(r) ==
  /\ op = "allreduce" /\ pc[r] = "start"
  /\ LET fused == EntriesFused
         algos == GetAlgorithmsForType(dtype)
         copyIn == IF fused
                     THEN <<ActivityStartAll("MEMCPY_IN_FUSION_BUFFER"),
                            Did("MemcpyInFusionBuffer"), ActivityEndAll>>
                     ELSE <<Did("memcpy")>>
     IN /\ fusion' = IF fused
                       THEN [fusion EXCEPT ![r] = AllreduceMemcpyInFusionBuffer(r)]
                       ELSE fusion
        /\ output' = IF fused
                       THEN output
                       ELSE [output EXCEPT ![r][0] =
                               Memcpy(output[r][0], 0, tensor[r][0])]
        /\ IF algos.thrown
             THEN /\ timeline' = [timeline EXCEPT ![r] =
                        copyIn \o <<ActivityStartAll("GLOO_ALLREDUCE"),
                                    Did("GetAlgorithmsForType")>>]
                  /\ result' = [result EXCEPT ![r] = Threw(dtype)]
                  /\ pc' = [pc EXCEPT ![r] = "done"]
                  /\ call' = call
             ELSE /\ timeline' = [timeline EXCEPT ![r] =
                        copyIn \o <<ActivityStartAll("GLOO_ALLREDUCE"),
                                    Did("GetAlgorithmsForType"),
                                    Did("Allreduce")>>]
                  /\ call' = [call EXCEPT ![r] =
                        [op |-> "allreduce",
                         buffer |-> IF fused THEN "fusion" ELSE "output",
                         count |-> AllreduceNumElements(r), root |-> 0]]
                  /\ pc' = [pc EXCEPT ![r] = "in_backend"]
                  /\ result' = result
  /\ UNCHANGED <<batch, tensor,
                 tables>>

\* gloo::AllreduceRing<T>::run on every rank: the first count elements of
\* every rank's buffer become the elementwise sum over the ranks
AllreduceRun ==
  /\ op = "allreduce" /\ AllIn("in_backend")
  /\ LET summed(r) ==
           [k \in 1 .. call[r].count |->
              SumTo([q \in Ranks |-> BufferOf(q, call[q].buffer)[k]], size)]
     IN /\ fusion' = [r \in Ranks |->
                        IF call[r].buffer = "fusion"
                          THEN Memcpy(fusion[r], 0, summed(r)) ELSE fusion[r]]
        /\ output' = [r \in Ranks |->
                        IF call[r].buffer = "output"
                          THEN [output[r] EXCEPT ![0] = Memcpy(@, 0, summed(r))]
                          ELSE output[r]]
  /\ pc' = [r \in Ranks |-> "collected"]
  /\ UNCHANGED <<batch, tensor,
                 result, timeline, tables, call>>

\* the copy back left out: the outputs stay as they were
AllreduceCopyOut_Skipped(r) == output

\* if (entries.size() > 1) MemcpyOutFusionBuffer(buffer_data, entries);
AllreduceCopyOut(r) ==
  IF EntriesFused
    THEN [output EXCEPT ![r] = AllreduceMemcpyOutFusionBuffer(r)]
    ELSE output

\* GlooAllreduce::Execute after allreduce.run()
GlooAllreduceReturn(r) ==
  /\ op = "allreduce" /\ pc[r] = "collected"
  /\ LET fused == EntriesFused
     IN /\ output' = AllreduceCopyOut(r)
        /\ timeline' = [timeline EXCEPT ![r] =
              @ \o <<ActivityEndAll>> \o
              (IF fused
                 THEN <<ActivityStartAll("MEMCPY_OUT_FUSION_BUFFER"),
                        Did("MemcpyOutFusionBuffer"), ActivityEndAll>>
                 ELSE << >>)]
  /\ result' = [result EXCEPT ![r] = Returned("OK")]
  /\ pc' = [pc EXCEPT ![r] = "done"]
  /\ UNCHANGED <<batch, tensor,
                 fusion, tables, call>>

\* --------------------------------------------------------- GlooAllgather
\* Status values AllocateOutput can return
AllocStatuses == {"OK", "INVALID_ARGUMENT"}

\* the four tables as allocated and zero-initialised by new ...[...]()
ZeroTables ==
  [alive |-> TRUE,
   entry_component_sizes |-> [ec \in Entries |-> [rc \in Ranks |-> 0]],
   entry_component_offsets |-> [ec \in Entries |-> [rc \in Ranks |-> 0]],
   recvcounts |-> [rc \in Ranks |-> 0],
   displcmnts |-> [rc \in Ranks |-> 0]]

\* AllgatherOp::AllocateOutput, the sizes it derives from the response: what
\* every rank contributes to every entry (tensors are one-dimensional)
ComputeSizes == [ec \in Entries |-> [rc \in Ranks |-> tensor_sizes[ec][rc]]]

\* AllgatherOp::AllocateOutput, the per-rank totals it accumulates
ComputeRecvcounts(sizes) ==
  [rc \in Ranks |-> SumTo([ec \in Entries |-> sizes[ec][rc]], nentries)]

RECURSIVE Displacement(_, _)
\* displcmnts[rc] as the loop of SetDisplacements leaves it
Displacement(recvcounts, rc) ==
  IF rc = 0 THEN 0
  ELSE Displacement(recvcounts, rc - 1) + recvcounts[rc - 1]

\* AllgatherOp::SetDisplacements
SetDisplacements(recvcounts) ==
  [rc \in Ranks |-> Displacement(recvcounts, rc)]

RECURSIVE ComponentOffset(_, _, _, _)
\* entry_component_offsets[ec][rc] as SetEntryComponentOffsets leaves it:
\* the first entry of a rank starts at the running total of recvcounts, each
\* later entry where the previous one ends
ComponentOffset(sizes, recvcounts, ec, rc) ==
  IF ec = 0 THEN SumTo(recvcounts, rc)
  ELSE ComponentOffset(sizes, recvcounts, ec - 1, rc) + sizes[ec - 1][rc]

\* AllgatherOp::SetEntryComponentOffsets
SetEntryComponentOffsets(sizes, recvcounts) ==
  [ec \in Entries |-> [rc \in Ranks |-> ComponentOffset(sizes, recvcounts, ec, rc)]]

\* AllgatherOp::MemcpyInFusionBuffer: the rank's entries back to back from the
\* rank's displacement
AllgatherMemcpyInFusionBuffer(r, displcmnts) ==
  Memcpy(fusion[r], displcmnts[r],
         Concat([i \in Entries |-> tensor[r][i]], nentries))

\* AllgatherOp::MemcpyOutFusionBuffer: entry ec receives, rank after rank, the
\* slice at entry_component_offsets[ec][rc] of entry_component_sizes[ec][rc]
AllgatherMemcpyOutFusionBuffer(r, offsets, sizes) ==
  [ec \in Entries |->
     Memcpy(output[r][ec], 0,
            Concat([rc \in Ranks |->
                      Slice(fusion[r], offsets[ec][rc], sizes[ec][rc])], size))]

\* the call of AllocateOutput, with the Status it returned
AllocateOutput(status) == <<"AllocateOutput", status>>

\* the status of AllocateOutput never looked at
AllocateOutputFailed_Unchecked(status) == FALSE

\* if (!status.ok()) after AllocateOutput
AllocateOutputFailed(status) == status # "OK"

\* PlanTables without the call of SetEntryComponentOffsets: the offsets stay
\* as new int64_t[...]() left them
PlanTables_NoOffsets(sizes, recvcounts) ==
  [displcmnts |-> SetDisplacements(recvcounts),
   entry_component_offsets |-> [ec \in Entries |-> [rc \in Ranks |-> 0]]]

\* PlanTables with every displacement one rank too far: the inclusive sums
PlanTables_Inclusive(sizes, recvcounts) ==
  [displcmnts |-> [rc \in Ranks |-> Displacement(recvcounts, rc + 1)],
   entry_component_offsets |-> SetEntryComponentOffsets(sizes, recvcounts)]

\* SetDisplacements(recvcounts, displcmnts);
\* SetEntryComponentOffsets(entries, entry_component_sizes, recvcounts,
\*                          entry_component_offsets);
PlanTables(sizes, recvcounts) ==
  [displcmnts |-> SetDisplacements(recvcounts),
   entry_component_offsets |-> SetEntryComponentOffsets(sizes, recvcounts)]

\* the steps with the copy into the fusion buffer ahead of the dispatch
AllgatherSteps_CopyInFirst(allocated, copyIn) ==
  allocated \o copyIn \o
  <<Did("GetAlgorithmsForType"),
    ActivityStartAll("GLOO_ALLGATHER"), Did("Allgather")>>

\* the steps of GlooAllgather::Execute from AllocateOutput to the collective
\* call, in the order of the code: GetAlgorithmsForType comes before the
\* copy into the fusion buffer
AllgatherSteps(allocated, copyIn) ==
  allocated \o <<Did("GetAlgorithmsForType")>> \o copyIn \o
  <<ActivityStartAll("GLOO_ALLGATHER"), Did("Allgather")>>

\* GlooAllgather::Execute up to allgather.run()
GlooAllgatherExecute(r) ==
  /\ op = "allgather" /\ pc[r] = "start"
  /\ \E status \in AllocStatuses :
       LET fused == EntriesFused
           sizes == ComputeSizes
           recvcounts == ComputeRecvcounts(sizes)
           displcmnts == PlanTables(sizes, recvcounts).displcmnts
           offsets == PlanTables(sizes, recvcounts).entry_component_offsets
           algos == GetAlgorithmsForType(dtype)
           planned == [alive |-> TRUE,
                       entry_component_sizes |-> sizes,
                       entry_component_offsets |-> offsets,
                       recvcounts |-> recvcounts,
                       displcmnts |-> displcmnts]
           allocated == <<ActivityStartAll("ALLOCATE_OUTPUT"),
                          AllocateOutput(status), ActivityEndAll>>
           copyIn == IF fused
                       THEN <<ActivityStartAll("MEMCPY_IN_FUSION_BUFFER"),
                              Did("MemcpyInFusionBuffer"), ActivityEndAll>>
                       ELSE << >>
       IN IF AllocateOutputFailed(status)
            THEN \* return status;
                 /\ tables' = [tables EXCEPT ![r] = ZeroTables]
                 /\ timeline' = [timeline EXCEPT ![r] =
                       <<ActivityStartAll("ALLOCATE_OUTPUT"),
                         AllocateOutput(status)>>]
                 /\ result' = [result EXCEPT ![r] = Returned(status)]
                 /\ pc' = [pc EXCEPT ![r] = "done"]
                 /\ UNCHANGED <<output, fusion, call>>
            ELSE
              /\ tables' = [tables EXCEPT ![r] = planned]
              /\ IF algos.thrown
                   THEN /\ output' = [output EXCEPT ![r] =
                              [ec \in Entries |->
                                 Fill(SumTo(sizes[ec], size), uninit)]]
                        /\ timeline' = [timeline EXCEPT ![r] =
                              allocated \o <<Did("GetAlgorithmsForType")>>]
                        /\ result' = [result EXCEPT ![r] = Threw(dtype)]
                        /\ pc' = [pc EXCEPT ![r] = "done"]
                        /\ UNCHANGED <<fusion, call>>
                   ELSE /\ output' = [output EXCEPT ![r] =
                              [ec \in Entries |->
                                 Fill(SumTo(sizes[ec], size), uninit)]]
                        /\ fusion' = IF fused
                              THEN [fusion EXCEPT ![r] =
                                      AllgatherMemcpyInFusionBuffer(r, displcmnts)]
                              ELSE fusion
                        /\ timeline' = [timeline EXCEPT ![r] =
                              AllgatherSteps(allocated, copyIn)]
                        /\ call' = [call EXCEPT ![r] =
                              [op |-> "allgather",
                               buffer |-> IF fused THEN "fusion" ELSE "output",
                               count |-> NumElements(r), root |-> 0]]
                        /\ pc' = [pc EXCEPT ![r] = "in_backend"]
                        /\ result' = result
  /\ UNCHANGED <<batch, tensor>>

\* how a run ends when gloo raises
BackendFailed == [kind |-> "backend_error", value |-> "gloo"]

\* gloo::AllgatherRing<T>::run on every rank, called with the same pointer as
\* input and output.  With one count on all ranks, the first count elements
\* of rank k's buffer land at k * count in every rank's buffer.  The ring
\* exchanges count-sized messages, so ranks that disagree on count either
\* get a transport error or are left with indeterminate destination cells.
AllgatherRun ==
  /\ op = "allgather" /\ AllIn("in_backend")
  /\ LET buf(r) == BufferOf(r, call[r].buffer)
         put(data) ==
           /\ fusion' = [q \in Ranks |->
                IF call[q].buffer = "fusion"
                  THEN Memcpy(fusion[q], 0, data[q]) ELSE fusion[q]]
           /\ output' = [q \in Ranks |->
                IF call[q].buffer = "output"
                  THEN [output[q] EXCEPT ![0] = Memcpy(@, 0, data[q])]
                  ELSE output[q]]
     IN IF \A r \in Ranks : call[r].count = call[0].count
          THEN /\ put([q \in Ranks |->
                    Concat([k \in Ranks |-> Slice(buf(k), 0, call[k].count)],
                           size)])
               /\ pc' = [r \in Ranks |-> "collected"]
               /\ result' = result
          ELSE \/ /\ pc' = [r \in Ranks |-> "done"]
                  /\ result' = [r \in Ranks |-> BackendFailed]
                  /\ UNCHANGED <<fusion, output>>
               \/ /\ put([q \in Ranks |-> Fill(size * call[q].count, uninit)])
                  /\ pc' = [r \in Ranks |-> "collected"]
                  /\ result' = result
  /\ UNCHANGED <<batch, tensor,
                 timeline, tables, call>>

\* GlooAllgather::Execute after allgather.run()
GlooAllgatherReturn(r) ==
  /\ op = "allgather" /\ pc[r] = "collected"
  /\ LET fused == EntriesFused
     IN /\ output' = IF fused
                       THEN [output EXCEPT ![r] =
                               AllgatherMemcpyOutFusionBuffer(
                                 r, tables[r].entry_component_offsets,
                                 tables[r].entry_component_sizes)]
                       ELSE output
        /\ timeline' = [timeline EXCEPT ![r] =
              @ \o <<ActivityEndAll>> \o
              (IF fused
                 THEN <<ActivityStartAll("MEMCPY_OUT_FUSION_BUFFER"),
                        Did("MemcpyOutFusionBuffer"), ActivityEndAll>>
                 ELSE << >>)]
  /\ tables' = [tables EXCEPT ![r] = NoTables]
  /\ result' = [result EXCEPT ![r] = Returned("OK")]
  /\ pc' = [pc EXCEPT ![r] = "done"]
  /\ UNCHANGED <<batch, tensor,
                 fusion, call>>

\* --------------------------------------------------------- GlooBroadcast
\* data_ptr without the test for the root: every rank passes its output
BroadcastDataPtr_AlwaysOutput(r) == "output"

\* data_ptr without the test for the root: every rank passes its tensor
BroadcastDataPtr_AlwaysTensor(r) == "tensor"

\* data_ptr: the root sends its tensor, every other rank receives in its output
BroadcastDataPtr(r) == IF r = root_rank THEN "tensor" ELSE "output"

\* GlooBroadcast::Execute up to bcast.run()
GlooBroadcastExecute(r) ==
  /\ op = "broadcast" /\ pc[r] = "start"
  /\ LET algos == GetAlgorithmsForType(dtype)
     IN IF nentries # 1 /\ ~ndebug
          THEN \* assert(entries.size() == 1) fails
               /\ result' = [result EXCEPT ![r] = Aborted]
               /\ pc' = [pc EXCEPT ![r] = "done"]
               /\ UNCHANGED <<timeline, call>>
          ELSE IF algos.thrown
            THEN /\ timeline' = [timeline EXCEPT ![r] =
                       <<ActivityStartAll("GLOO_BCAST"),
                         Did("GetAlgorithmsForType")>>]
                 /\ result' = [result EXCEPT ![r] = Threw(dtype)]
                 /\ pc' = [pc EXCEPT ![r] = "done"]
                 /\ call' = call
            ELSE /\ timeline' = [timeline EXCEPT ![r] =
                       <<ActivityStartAll("GLOO_BCAST"),
                         Did("GetAlgorithmsForType"), Did("Broadcast")>>]
                 /\ call' = [call EXCEPT ![r] =
                       [op |-> "broadcast",
                        buffer |-> BroadcastDataPtr(r),
                        count |-> Len(tensor[r][0]), root |-> root_rank]]
                 /\ pc' = [pc EXCEPT ![r] = "in_backend"]
                 /\ result' = result
  /\ UNCHANGED <<batch, tensor,
                 output, fusion, tables>>

\* gloo::BroadcastOneToAll<T>::run on every rank: the first count elements of
\* the root's buffer are copied into every other rank's buffer
BroadcastRun ==
  /\ op = "broadcast" /\ AllIn("in_backend")
  /\ LET root == call[0].root
         sent == Slice(BufferOf(root, call[root].buffer), 0, call[root].count)
     IN /\ output' = [r \in Ranks |->
                        IF r # root /\ call[r].buffer = "output"
                          THEN [output[r] EXCEPT ![0] = Memcpy(@, 0, sent)]
                          ELSE output[r]]
        /\ tensor' = [r \in Ranks |->
                        IF r # root /\ call[r].buffer = "tensor"
                          THEN [tensor[r] EXCEPT ![0] = Memcpy(@, 0, sent)]
                          ELSE tensor[r]]
  /\ pc' = [r \in Ranks |-> "collected"]
  /\ UNCHANGED <<batch,
                 fusion, result, timeline, tables, call>>

\* GlooBroadcast::Execute after bcast.run()
GlooBroadcastReturn(r) ==
  /\ op = "broadcast" /\ pc[r] = "collected"
  /\ timeline' = [timeline EXCEPT ![r] = @ \o <<ActivityEndAll>>]
  /\ result' = [result EXCEPT ![r] = Returned("OK")]
  /\ pc' = [pc EXCEPT ![r] = "done"]
  /\ UNCHANGED <<batch, tensor,
                 output, fusion, tables, call>>

\* ------------------------------------------------------------ the system
Next ==
  \/ \E r \in Ranks : GlooAllreduceExecute(r)
  \/ AllreduceRun
  \/ \E r \in Ranks : GlooAllreduceReturn(r)
  \/ \E r \in Ranks : GlooAllgatherExecute(r)
  \/ AllgatherRun
  \/ \E r \in Ranks : GlooAllgatherReturn(r)
  \/ \E r \in Ranks : GlooBroadcastExecute(r)
  \/ BroadcastRun
  \/ \E r \in Ranks : GlooBroadcastReturn(r)

Spec == Init /\ [][Next]_vars

\* ------------------------------------------------------------ the planner
\* The allgather size/offset planner on its own: for every response of up to
\* PlanMaxSize ranks, one rank runs GlooAllgather::Execute up to the
\* collective call.
PlannerInit ==
  \E n \in 1 .. PlanMaxSize : Batch(n) /\ op = "allgather"

PlannerNext == \E r \in Ranks : AllIn("start") /\ GlooAllgatherExecute(r)

PlannerSpec == PlannerInit /\ [][PlannerNext]_vars

\* ------------------------------------------------------- the round trip
\* GlooAllreduce::Execute and GlooAllgather::Execute on a job of one rank:
\* the collective of a single rank leaves the buffer it works on as it is,
\* so what the copy out reads is what the copy in wrote.
RoundTripInit == Batch(1) /\ op \in {"allreduce", "allgather"}

RoundTripNext ==
  \/ \E r \in Ranks : GlooAllreduceExecute(r)
  \/ AllreduceRun
  \/ \E r \in Ranks : GlooAllreduceReturn(r)
  \/ \E r \in Ranks : GlooAllgatherExecute(r)
  \/ AllgatherRun
  \/ \E r \in Ranks : GlooAllgatherReturn(r)

RoundTripSpec == RoundTripInit /\ [][RoundTripNext]_vars

\* ================================================================ claims
\* the element types the dispatcher supports
SupportedTypes ==
  {"HOROVOD_UINT8", "HOROVOD_INT8", "HOROVOD_UINT16", "HOROVOD_INT16",
   "HOROVOD_INT32", "HOROVOD_INT64", "HOROVOD_FLOAT32", "HOROVOD_FLOAT64",
   "HOROVOD_BOOL"}

\* positions of the events called name in the run of rank r
Events(r, name) == {k \in 1 .. Len(timeline[r]) : timeline[r][k][1] = name}

\* rank r has called the backend collective
Invoked(r) ==
  Events(r, "Allreduce") \cup Events(r, "Allgather") \cup Events(r, "Broadcast")
    # {}

\* rank r has copied into the fusion buffer
Fused(r) == Events(r, "MemcpyInFusionBuffer") # {}

\* Execute of rank r has returned Status::OK()
ReturnedOK(r) == pc[r] = "done" /\ result[r] = [kind |-> "status", value |-> "OK"]

\* AllocateOutput of rank r returned a non-OK status
AllocationFailed(r) ==
  \E k \in Events(r, "AllocateOutput") : timeline[r][k][2] # "OK"

\* C1 as stated: when the first entry's element type is outside the supported
\* set, every run of the three executors fails with the unsupported-type
\* error and never calls the backend collective.
C1_Original ==
  dtype \notin SupportedTypes =>
    \A r \in Ranks :
      /\ ~Invoked(r)
      /\ pc[r] # "start" =>
           /\ pc[r] = "done"
           /\ result[r] = [kind |-> "logic_error", value |-> dtype]

\* C1 amended: when the first entry's element type is outside the supported
\* set, the run never calls the backend collective and fails: with the
\* unsupported-type error naming the type, unless an earlier check of the
\* same Execute has already ended the run (AllocateOutput returned a non-OK
\* status in GlooAllgather::Execute, or the assert on entries.size() fired in
\* GlooBroadcast::Execute).
C1_UnsupportedTypeFailsFast ==
  dtype \notin SupportedTypes =>
    \A r \in Ranks :
      /\ ~Invoked(r)
      /\ pc[r] # "start" =>
           /\ pc[r] = "done"
           /\ \/ result[r] = [kind |-> "logic_error", value |-> dtype]
              \/ /\ op = "allgather" /\ AllocationFailed(r)
                 /\ result[r].kind = "status" /\ result[r].value # "OK"
              \/ /\ op = "broadcast" /\ nentries # 1 /\ ~ndebug
                 /\ result[r].kind = "abort"

\* C1 witness: an allgather run that passed allocation and was stopped by the
\* unsupported type before the collective.
C1_Witness ==
  \E r \in Ranks :
    /\ op = "allgather" /\ dtype \notin SupportedTypes
    /\ ~AllocationFailed(r) /\ ~Invoked(r)
    /\ result[r] = [kind |-> "logic_error", value |-> dtype]

\* C2: when AllocateOutput returns a non-OK status, GlooAllgather::Execute
\* returns that very status, and the run copies nothing into the fusion
\* buffer and never calls the backend gather.
C2_AllocationFailureReturned ==
  \A r \in Ranks : \A k \in Events(r, "AllocateOutput") :
    timeline[r][k][2] # "OK" =>
      /\ pc[r] = "done"
      /\ result[r] = [kind |-> "status", value |-> timeline[r][k][2]]
      /\ ~Fused(r) /\ ~Invoked(r)
      /\ fusion[r] = Fill(FusionCapacity, uninit)

\* C2 witness: a multi-entry allgather run ended by a failed allocation.
C2_Witness ==
  \E r \in Ranks :
    /\ op = "allgather" /\ nentries > 1 /\ AllocationFailed(r)
    /\ result[r] = [kind |-> "status", value |-> "INVALID_ARGUMENT"]

\* C3 as stated: GlooBroadcast::Execute on a batch whose size is not 1 fails
\* with a precondition violation and never calls the backend broadcast.
C3_Original ==
  (op = "broadcast" /\ nentries # 1) =>
    \A r \in Ranks :
      /\ ~Invoked(r)
      /\ pc[r] # "start" => (pc[r] = "done" /\ result[r].kind = "abort")

\* C4 as stated: every run of an executor ends by returning one status; no
\* error leaves Execute as an exception or a process abort.
C4_Original ==
  \A r \in Ranks : pc[r] = "done" => result[r].kind = "status"

\* C5 as stated: after a successful GlooAllgather::Execute every entry's
\* output holds, on every rank, the ranks' inputs for that entry in rank order.
C5_Original ==
  op = "allgather" =>
    \A r \in Ranks : ReturnedOK(r) =>
      \A i \in Entries :
        output[r][i] = Concat([k \in Ranks |-> tensor[k][i]], size)

\* the tables of rank r are the ones planned after a successful allocation
Planned(r) ==
  /\ tables[r].alive
  /\ \E k \in Events(r, "AllocateOutput") : timeline[r][k][2] = "OK"

\* the byte size rank rc contributes to entry i
SizeBytes(i, rc) == tensor_sizes[i][rc] * ElementSize(dtype)

\* the batch of the worked example: 2 tensors on 3 ranks, byte sizes
\* [4,4,4] and [8,4,8]
ExampleBatch ==
  /\ size = 3 /\ nentries = 2 /\ dtype \in SupportedTypes
  /\ [rc \in Ranks |-> SizeBytes(0, rc)] = (0 :> 4 @@ 1 :> 4 @@ 2 :> 4)
  /\ [rc \in Ranks |-> SizeBytes(1, rc)] = (0 :> 8 @@ 1 :> 4 @@ 2 :> 8)

\* C6: the offset table GlooAllgather::Execute computes satisfies
\* offset[i][r] = displacement[r] + sum over j < i of size[j][r]; for byte
\* sizes [4,4,4] and [8,4,8] the displacements are [0,12,20] bytes and
\* offset[1][2] is 24 bytes.
C6_OffsetTable ==
  \A r \in Ranks : Planned(r) =>
    /\ \A i \in Entries : \A rc \in Ranks :
         tables[r].entry_component_offsets[i][rc] =
           tables[r].displcmnts[rc]
             + SumTo([j \in Entries |-> tensor_sizes[j][rc]], i)
    /\ ExampleBatch =>
         /\ [rc \in Ranks |-> tables[r].displcmnts[rc] * ElementSize(dtype)]
              = (0 :> 0 @@ 1 :> 12 @@ 2 :> 20)
         /\ tables[r].entry_component_offsets[1][2] * ElementSize(dtype) = 24

\* C6 witness: the worked example has been planned.
C6_Witness ==
  \E r \in Ranks :
    /\ Planned(r) /\ ExampleBatch
    /\ tables[r].entry_component_offsets[1][2] * ElementSize(dtype) = 24

\* all that rank rc contributes to the batch
TotalSize(rc) == SumTo([i \in Entries |-> tensor_sizes[i][rc]], nentries)

RECURSIVE SumSizes(_)
\* the sum of tensor_sizes over a set of <<entry, rank>> pairs
SumSizes(pairs) ==
  IF pairs = {} THEN 0
  ELSE LET p == CHOOSE q \in pairs : TRUE
       IN tensor_sizes[p[1]][p[2]] + SumSizes(pairs \ {p})

\* the contributions of the ranks below rc, those of size 0 left out
NonZeroBelow(rc) ==
  {p \in Entries \X Ranks : p[2] < rc /\ tensor_sizes[p[1]][p[2]] # 0}

\* C7: the displacement table is the exclusive prefix sum of the per-rank
\* totals; a contribution of size 0 is planned like any other (Execute goes
\* on to the collective) and every displacement equals the sum taken with
\* the zero sizes omitted.
C7_DisplacementTable ==
  \A r \in Ranks : Planned(r) =>
    /\ tables[r].displcmnts[0] = 0
    /\ \A rc \in Ranks \ {0} :
         tables[r].displcmnts[rc] =
           tables[r].displcmnts[rc - 1] + TotalSize(rc - 1)
    /\ \A rc \in Ranks :
         /\ tables[r].recvcounts[rc] = TotalSize(rc)
         /\ tables[r].displcmnts[rc] = SumSizes(NonZeroBelow(rc))
    /\ dtype \in SupportedTypes => Invoked(r)

\* C7 witness: a planned batch in which a rank contributes nothing to some
\* tensor and a later rank's displacement is not 0.
C7_Witness ==
  \E r \in Ranks :
    /\ Planned(r) /\ Invoked(r)
    /\ \E i \in Entries : \E rc \in Ranks :
         /\ tensor_sizes[i][rc] = 0
         /\ \E later \in Ranks : later > rc /\ tables[r].displcmnts[later] > 0

\* the content c the root supplies
RootContent == [j \in 1 .. tensor_sizes[0][root_rank] |-> Tag(root_rank, 0, j)]

\* C8: once GlooBroadcast::Execute has completed the collective, every
\* non-root rank's output equals the root's content c and the root's own
\* buffer still holds c.
C8_BroadcastDelivers ==
  op = "broadcast" =>
    \A r \in Ranks : (pc[r] = "collected" \/ ReturnedOK(r)) =>
      /\ r # root_rank => output[r][0] = RootContent
      /\ tensor[root_rank][0] = RootContent

\* C8 witness: a broadcast of a non-empty tensor has returned on all ranks.
C8_Witness ==
  /\ op = "broadcast" /\ RootContent # << >>
  /\ \A r \in Ranks : ReturnedOK(r)
  /\ \E r \in Ranks : r # root_rank /\ output[r][0] = RootContent

\* every rank's input for entry i holds the value v in every element
Uniform(i, v) ==
  \A q \in Ranks : \A j \in 1 .. Len(tensor[q][i]) : tensor[q][i][j] = v

\* C9: after a successful GlooAllreduce::Execute on size ranks, an entry
\* whose input is the same value v in every element on every rank has
\* size * v in every element of its output, on every rank, for single-entry
\* and fused batches alike.
C9_UniformAllreduce ==
  op = "allreduce" =>
    \A r \in Ranks : ReturnedOK(r) =>
      \A i \in Entries : \A v \in 1 .. (MaxVal + MaxEntries) :
        Uniform(i, v) => output[r][i] = Fill(Len(tensor[r][i]), size * v)

\* C9 witness: a fused allreduce of uniform, non-empty inputs has returned
\* size * v everywhere.
C9_Witness ==
  /\ op = "allreduce" /\ nentries > 1
  /\ \A r \in Ranks : ReturnedOK(r)
  /\ \A i \in Entries : \E v \in 1 .. (MaxVal + MaxEntries) :
       /\ Uniform(i, v) /\ Len(tensor[0][i]) > 0
       /\ \A r \in Ranks : output[r][i] = Fill(Len(tensor[r][i]), size * v)

\* the timeline notifications of rank r's run, in order
Notifications(r) ==
  SelectSeq(timeline[r],
            LAMBDA e : e[1] \in {"ActivityStartAll", "ActivityEndAll"})

\* C10 as stated: in every run the timeline notifications alternate, an
\* ActivityStartAll first, and when the run ends, on whatever path, every
\* ActivityStartAll has had its ActivityEndAll.
C10_Original ==
  \A r \in Ranks :
    LET n == Notifications(r)
    IN /\ \A k \in 1 .. Len(n) :
            n[k][1] = IF k % 2 = 1 THEN "ActivityStartAll" ELSE "ActivityEndAll"
       /\ pc[r] = "done" => Len(n) % 2 = 0

\* C11 as stated: the ranks that have invoked the backend for the batch have
\* invoked it with the same operation, the same element type, the same
\* element count and the same root, also when the sizes the ranks declare
\* for an allgather differ.  (The element type is the batch's dtype, which
\* all ranks share.)
C11_Original ==
  \A r \in Ranks : \A q \in Ranks :
    (Invoked(r) /\ Invoked(q)) =>
      /\ call[r].op = call[q].op
      /\ call[r].count = call[q].count
      /\ call[r].root = call[q].root

\* the run of rank r has ended in a failure
Failed(r) == pc[r] = "done" /\ result[r] # [kind |-> "status", value |-> "OK"]

\* C12 as stated: the outcome of a batch is all-or-nothing; no state is
\* reached in which some rank has ended its run with a failure while another
\* rank is blocked in the backend collective call or has completed it.
C12_Original ==
  \A r \in Ranks : \A q \in Ranks :
    ~ /\ Failed(r)
      /\ \/ pc[q] \in {"in_backend", "collected"}
         \/ ReturnedOK(q)

\* the cells of rank r's fusion buffer that hold the value x
Cells(r, x) == Cardinality({k \in 1 .. Len(fusion[r]) : fusion[r][k] = x})

\* the elements of rank r's input tensors that hold the value x
Elements(r, x) ==
  SumTo([i \in Entries |->
           Cardinality({j \in 1 .. Len(tensor[r][i]) : tensor[r][i][j] = x})],
        nentries)

\* C13: for a multi-entry batch, packing the entries into the fusion buffer
\* and unpacking it with no change in between (the collective of a single
\* rank) writes into every entry's output exactly the entry's input, and no
\* entry's slice overlaps a neighbour's: every input element has a cell of
\* its own in the buffer and no other cell is written.
C13_RoundTrip ==
  size = 1 =>
    \A r \in Ranks : Fused(r) =>
      /\ Cells(r, uninit) = Len(fusion[r]) - NumElements(r)
      /\ \A i \in Entries : \A j \in 1 .. Len(tensor[r][i]) :
           Cells(r, tensor[r][i][j]) = Elements(r, tensor[r][i][j])
      /\ ReturnedOK(r) => \A i \in Entries : output[r][i] = tensor[r][i]

\* C13 witness: a one-rank allreduce of two or more non-empty entries has
\* returned with every output equal to its input.
C13_Witness ==
  /\ size = 1 /\ op = "allreduce" /\ nentries > 1
  /\ Fused(0) /\ ReturnedOK(0)
  /\ \A i \in Entries : tensor[0][i] # << >> /\ output[0][i] = tensor[0][i]

\* the steps of rank r's run, in order: the timeline without the notifications
Steps(r) ==
  SelectSeq(timeline[r],
            LAMBDA e : e[1] \notin {"ActivityStartAll", "ActivityEndAll"})

\* the kind of a step: 1 output preparation, 2 copy into the fusion buffer,
\* 3 algorithm dispatch, 4 backend collective call, 5 copy out
StepKind(e) ==
  CASE e[1] \in {"AllocateOutput", "memcpy"}             -> 1
    [] e[1] = "MemcpyInFusionBuffer"                      -> 2
    [] e[1] = "GetAlgorithmsForType"                      -> 3
    [] e[1] \in {"Allreduce", "Allgather", "Broadcast"}   -> 4
    [] e[1] = "MemcpyOutFusionBuffer"                     -> 5

\* the kinds of the steps of rank r's run, in order
Kinds(r) ==
  LET s == Steps(r) IN [n \in 1 .. Len(s) |-> StepKind(s[n])]

\* how often a step of kind k occurs among kinds
Times(kinds, k) == Cardinality({n \in 1 .. Len(kinds) : kinds[n] = k})

\* no step of a run is repeated, dispatch and collective call occur once,
\* and both copies occur when and only when the batch has more than one
\* entry
OnePass(kinds) ==
  /\ \A k \in 1 .. 5 : Times(kinds, k) <= 1
  /\ Times(kinds, 3) = 1 /\ Times(kinds, 4) = 1
  /\ Times(kinds, 2) = (IF nentries > 1 THEN 1 ELSE 0)
  /\ Times(kinds, 5) = Times(kinds, 2)

\* the steps of a run occur in the order given by rank
InOrder(kinds, rank) ==
  \A m \in 1 .. Len(kinds) : \A n \in 1 .. Len(kinds) :
    m < n => rank[kinds[m]] < rank[kinds[n]]

\* C14 as stated: every successful run of GlooAllreduce::Execute and
\* GlooAllgather::Execute is one pass in the order output preparation, copy
\* into the fusion buffer (only for more than one entry), algorithm
\* dispatch, one backend collective call, copy out (only for more than one
\* entry), return; a copy out happens iff a copy in happened before.
C14_Original ==
  op \in {"allreduce", "allgather"} =>
    \A r \in Ranks : ReturnedOK(r) =>
      LET kinds == Kinds(r)
      IN OnePass(kinds) /\ InOrder(kinds, <<1, 2, 3, 4, 5>>)

\* C14 amended: every successful run of GlooAllreduce::Execute and
\* GlooAllgather::Execute is one pass with one algorithm dispatch and one
\* backend collective call, and copies into and out of the fusion buffer
\* when and only when the batch has more than one entry.  GlooAllreduce runs
\* copy in, dispatch, collective, copy out; GlooAllgather runs output
\* preparation, dispatch, copy in, collective, copy out: there the dispatch
\* comes before the copy into the fusion buffer.
C14_SinglePass ==
  op \in {"allreduce", "allgather"} =>
    \A r \in Ranks : ReturnedOK(r) =>
      LET kinds == Kinds(r)
      IN /\ OnePass(kinds)
         /\ InOrder(kinds, IF op = "allgather" THEN <<1, 3, 2, 4, 5>>
                           ELSE <<1, 2, 3, 4, 5>>)

\* C14 witness: a fused allgather has returned OK, its dispatch made before
\* its copy into the fusion buffer.
C14_Witness ==
  \E r \in Ranks :
    /\ op = "allgather" /\ nentries > 1 /\ ReturnedOK(r)
    /\ \E m \in Events(r, "GetAlgorithmsForType") :
         \E n \in Events(r, "MemcpyInFusionBuffer") : m < n
    /\ Events(r, "MemcpyOutFusionBuffer") # {}

\* rank r's fusion buffer is as it was before the run
FusionUntouched(r) == fusion[r] = Fill(FusionCapacity, uninit)

\* C15: a single-entry batch bypasses fusion: in GlooAllreduce::Execute and
\* GlooAllgather::Execute with exactly one entry, and in every
\* GlooBroadcast::Execute, the fusion buffer is left unchanged and the
\* backend works on the entry's own input or output buffer; the fusion
\* buffer is written only when the batch has more than one entry.
C15_SingleEntryBypassesFusion ==
  \A r \in Ranks :
    /\ (nentries = 1 \/ op = "broadcast") =>
         /\ FusionUntouched(r)
         /\ ~Fused(r)
         /\ Invoked(r) => call[r].buffer \in {"tensor", "output"}
    /\ ~FusionUntouched(r) => (nentries > 1 /\ op # "broadcast")

\* C15 witness: a single-entry allreduce of non-empty tensors has returned on
\* every rank, the collective having worked on the outputs, the fusion
\* buffers untouched.
C15_Witness ==
  /\ op = "allreduce" /\ nentries = 1
  /\ \A r \in Ranks :
       /\ ReturnedOK(r) /\ tensor[r][0] # << >>
       /\ call[r].buffer = "output" /\ FusionUntouched(r)

\* C16 as stated: on every path by which GlooAllgather::Execute ends
\* (success, allocation failure, unsupported type) the tables of the batch
\* (entry_component_sizes, entry_component_offsets, recvcounts, displcmnts)
\* have been released by the time the run ends.
C16_Original ==
  op = "allgather" =>
    \A r \in Ranks : pc[r] = "done" => ~tables[r].alive

\* C17: no step of any executor run modifies an entry's input tensor data,
\* on root and non-root ranks alike: the runs write only to output buffers
\* and to the fusion buffer.
C17_InputsReadOnly == [][tensor' = tensor]_vars

\* C17 witness: a broadcast of a non-empty tensor has returned on every rank,
\* the outputs of the other ranks written, every rank's input as it was
\* handed in.
C17_Witness ==
  /\ op = "broadcast" /\ RootContent # << >>
  /\ \A r \in Ranks :
       /\ ReturnedOK(r)
       /\ r # root_rank => output[r][0] = RootContent
       /\ tensor[r][0] = [j \in 1 .. tensor_sizes[0][r] |-> Tag(r, 0, j)]

\* the output buffers of rank r as they were before the run: no output yet
\* for an allgather, the caller's buffers for the other operations
OutputUntouched(r) ==
  \A i \in Entries :
    output[r][i] = IF op = "allgather" THEN << >>
                   ELSE Fill(tensor_sizes[i][r], uninit)

\* C18 as stated: when a run fails before the backend collective is invoked
\* (unsupported element type, allocation failure, precondition violation),
\* no output buffer of an entry has been modified by that run.
C18_Original ==
  \A r \in Ranks : (Failed(r) /\ ~Invoked(r)) => OutputUntouched(r)
====
